---- MODULE Spec2Model ----
(***************************************************************************)
(* Model of pkg/cmd/docgen/funcs.go: the generators of the SQL function    *)
(* and operator reference tables (generateFunctions, generateOperators)    *)
(* and the type linkers they use (linkArguments, linkTypeName).            *)
(*                                                                         *)
(* Go strings are TLA+ strings; Len, SubSeq and \o act on them character   *)
(* by character.  A Go map is a function; ranging over a map visits its    *)
(* keys in an order the runtime chooses, so every range loop over a map    *)
(* is an action that picks any key not yet visited.                        *)
(***************************************************************************)
EXTENDS Integers, Sequences, FiniteSets, TLC

VARIABLES
    pc,          \* position of the running call
    fn,          \* linker under call: "linkTypeName" or "linkArguments"
    arg,         \* its argument
    result,      \* its return value
    UnaryOps,    \* parser.UnaryOps: operator kind -> overloads
    BinOps,      \* parser.BinOps
    CmpOps,      \* parser.CmpOps
    from,        \* generateFunctions' catalog: name -> overloads
    categorize,  \* generateFunctions' flag
    ops,         \* generateOperators: symbol -> operations
    opstrs,      \* generateOperators: the symbols, in rendering order
    functions,   \* generateFunctions: category -> rows
    seen,        \* generateFunctions: lowercased names already taken
    cats,        \* generateFunctions: the categories, in rendering order
    b,           \* the output buffer of the running call
    visited,     \* keys the current range loop has already visited
    iterOrder,   \* keys of `from` in the order the range loop visited them
    invocation,  \* 1 or 2: which of two calls on the same catalog is running
    prevOut      \* the bytes the first call returned

vars == <<pc, fn, arg, result, UnaryOps, BinOps, CmpOps, from, categorize, ops,
          opstrs, functions, seen, cats, b, visited, iterOrder, invocation, prevOut>>

linkVars == <<fn, arg, result>>
opVars == <<UnaryOps, BinOps, CmpOps, ops, opstrs>>
funcVars == <<from, categorize, functions, seen, cats, iterOrder>>
runVars == <<b, visited, invocation, prevOut>>

-----------------------------------------------------------------------------
(* Strings *)

\* The printable ASCII characters in byte order: 32 (space) to 95, and 97 to
\* 126 (96, the backquote, cannot be written in a TLA+ string and occurs in
\* no string of the program).
AsciiLow == " !\"#$%&'()*+,-./0123456789:;<=>?@ABCDEFGHIJKLMNOPQRSTUVWXYZ[\\]^_"

AsciiHigh == "abcdefghijklmnopqrstuvwxyz{|}~"

LowerLetters == "abcdefghijklmnopqrstuvwxyz"

UpperLetters == "ABCDEFGHIJKLMNOPQRSTUVWXYZ"

Char(s, i) == SubSeq(s, i, i)

\* The place of character c in alphabet, 0 when it is not in it.
IndexIn(c, alphabet) ==
    IF \E i \in 1..Len(alphabet) : Char(alphabet, i) = c
    THEN CHOOSE i \in 1..Len(alphabet) : Char(alphabet, i) = c
    ELSE 0

\* The byte value of a character.
Ord(c) ==
    IF c = "\n" THEN 10
    ELSE IF IndexIn(c, AsciiLow) > 0 THEN 31 + IndexIn(c, AsciiLow)
    ELSE 96 + IndexIn(c, AsciiHigh)

\* The first position where s and t differ, or 0 when one is a prefix of the
\* other.
FirstDiff(s, t) ==
    LET n == IF Len(s) < Len(t) THEN Len(s) ELSE Len(t)
    IN  IF SubSeq(s, 1, n) = SubSeq(t, 1, n) THEN 0
        ELSE CHOOSE i \in 1..n :
                 /\ Char(s, i) # Char(t, i)
                 /\ SubSeq(s, 1, i - 1) = SubSeq(t, 1, i - 1)

\* The < of Go on strings: bytewise.
StrLess(s, t) ==
    LET d == FirstDiff(s, t)
    IN  IF d = 0 THEN Len(s) < Len(t) ELSE Ord(Char(s, d)) < Ord(Char(t, d))

HasSuffix(s, suffix) ==
    /\ Len(s) >= Len(suffix)
    /\ SubSeq(s, Len(s) - Len(suffix) + 1, Len(s)) = suffix

TrimSuffix(s, suffix) ==
    IF HasSuffix(s, suffix) THEN SubSeq(s, 1, Len(s) - Len(suffix)) ELSE s

RECURSIVE ToLower(_)
ToLower(s) ==
    IF s = "" THEN ""
    ELSE LET c == Char(s, 1)
             u == IndexIn(c, UpperLetters)
         IN  (IF u = 0 THEN c ELSE Char(LowerLetters, u)) \o ToLower(SubSeq(s, 2, Len(s)))

\* The first position where sep occurs in s, 0 when it does not.
Index(s, sep) ==
    LET hits == {i \in 1..(Len(s) - Len(sep) + 1) : SubSeq(s, i, i + Len(sep) - 1) = sep}
    IN  IF hits = {} THEN 0 ELSE CHOOSE i \in hits : \A j \in hits : i <= j

RECURSIVE Split(_, _)
Split(s, sep) ==
    LET i == Index(s, sep)
    IN  IF i = 0 THEN <<s>>
        ELSE <<SubSeq(s, 1, i - 1)>> \o Split(SubSeq(s, i + Len(sep), Len(s)), sep)

RECURSIVE Join(_, _)
Join(a, sep) ==
    IF a = <<>> THEN ""
    ELSE IF Len(a) = 1 THEN a[1]
    ELSE a[1] \o sep \o Join(Tail(a), sep)

-----------------------------------------------------------------------------
(* linkTypeName *)

RecognizedTypes ==
    {"int", "decimal", "float", "bool", "date", "timestamp", "interval", "string",
     "bytes", "inet", "uuid", "collatedstring"}

\* linkTypeName with the link text taken from the link target.
linkTypeName_TextFromTarget(s0) ==
    LET s1 == TrimSuffix(s0, "{}")
        s2 == IF s1 = "timestamptz" THEN "timestamp" ELSE s1
        s3 == TrimSuffix(s2, "[]")
    IN  IF s3 \in RecognizedTypes
        THEN "<a href=\"" \o s3 \o ".html\">" \o s3 \o "</a>"
        ELSE s3

linkTypeName(s0) ==
    LET s1 == TrimSuffix(s0, "{}")
        name == s1
        s2 == IF s1 = "timestamptz" THEN "timestamp" ELSE s1
        s3 == TrimSuffix(s2, "[]")
    IN  IF s3 \in RecognizedTypes
        THEN "<a href=\"" \o s3 \o ".html\">" \o name \o "</a>"
        ELSE s3

-----------------------------------------------------------------------------
(* linkArguments *)

LowerSet == {Char(LowerLetters, i) : i \in 1..Len(LowerLetters)}

IsLower(c) == c \in LowerSet

IsPunct(c) == c \in {".", "[", "]"}

\* Where the greedy [a-z]+ started at i ends: before the first character from
\* i on that is no lowercase letter (i - 1 when s[i] is none).
LowerRunEnd(s, i) ==
    LET others == {k \in i..Len(s) : ~IsLower(Char(s, k))}
    IN  IF others = {} THEN Len(s)
        ELSE (CHOOSE k \in others : \A k2 \in others : k <= k2) - 1

\* Whether ([a-z]+)([\.\[\]]*)$ matches s from position i.  A shorter [a-z]+
\* leaves a lowercase letter next, which neither the class nor $ accepts, so
\* only the greedy run can match.
linkREMatchesAt(s, i) ==
    LET e == LowerRunEnd(s, i)
    IN  e >= i /\ \A k \in (e + 1)..Len(s) : IsPunct(Char(s, k))

\* The start of the leftmost match of linkRE in s, 0 when there is none.
linkREFindIndex(s) ==
    LET starts == {i \in 1..Len(s) : linkREMatchesAt(s, i)}
    IN  IF starts = {} THEN 0 ELSE CHOOSE i \in starts : \A j \in starts : i <= j

\* linkRE.FindStringSubmatch(s) for an s that linkRE matches: the match and
\* its two groups.
linkREFindStringSubmatch(s) ==
    LET i == linkREFindIndex(s)
        e == LowerRunEnd(s, i)
    IN  [whole |-> SubSeq(s, i, Len(s)),
         name |-> SubSeq(s, i, e),
         punct |-> SubSeq(s, e + 1, Len(s))]

\* The function linkArguments hands to ReplaceAllStringFunc, with the trailing
\* punctuation dropped.
linkArgumentsRepl_DropsPunct(s) ==
    LET match == linkREFindStringSubmatch(s)
    IN  linkTypeName(match.name)

\* The function linkArguments hands to ReplaceAllStringFunc.
linkArgumentsRepl(s) ==
    LET match == linkREFindStringSubmatch(s)
    IN  linkTypeName(match.name) \o match.punct

\* linkRE.ReplaceAllStringFunc(s, linkArgumentsRepl).  The pattern ends in $
\* and needs a letter, so it matches at most once, up to the end of s.
linkREReplaceAllStringFunc(s) ==
    LET i == linkREFindIndex(s)
    IN  IF i = 0 THEN s
        ELSE SubSeq(s, 1, i - 1) \o linkArgumentsRepl(SubSeq(s, i, Len(s)))

linkArguments(t) ==
    LET sp == Split(t, ", ")
    IN  Join([i \in 1..Len(sp) |-> linkREReplaceAllStringFunc(sp[i])], ", ")

-----------------------------------------------------------------------------
(* The inputs of the linkers *)

MaxTokens == 2

TypeBases == RecognizedTypes \cup {"timestamptz", "widget", "Int"}

TypeSuffixes == {"", "[]", "{}", "[]{}", "{}[]"}

TypeSpellings == {base \o suffix : base \in TypeBases, suffix \in TypeSuffixes}

Tokens ==
    {"int", "int[]", "val: string", "timestamptz", "widget", "anyelement...",
     "Int", "INTint", "a.b", "int2", "int}", "int,", "[]", "", "x int.[]"}

RECURSIVE SeqsUpTo(_, _)
\* The sequences of at most n elements of S.
SeqsUpTo(S, n) ==
    IF n = 0 THEN {<<>>}
    ELSE LET shorter == SeqsUpTo(S, n - 1)
         IN  shorter \cup {Append(q, x) : q \in shorter, x \in S}

ArgumentLists == {Join(q, ", ") : q \in SeqsUpTo(Tokens, MaxTokens) \ {<<>>}}

-----------------------------------------------------------------------------
(* Maps and sorting *)

\* m[k] = append(m[k], v) on a Go map of slices: a missing key reads as nil.
MapAppend(m, k, v) ==
    IF k \in DOMAIN m THEN [m EXCEPT ![k] = Append(@, v)] ELSE m @@ (k :> <<v>>)

RECURSIVE MapAppendAll(_, _, _)
MapAppendAll(m, k, vs) ==
    IF vs = <<>> THEN m ELSE MapAppendAll(MapAppend(m, k, Head(vs)), k, Tail(vs))

\* operations.Swap
Swap(p, i, j) == [p EXCEPT ![i] = p[j], ![j] = p[i]]

\* operations.Less with the rule for a unary against a binary entry reversed.
Less_BinaryFirst(p, i, j) ==
    IF p[i].right # "" /\ p[j].right = "" THEN TRUE
    ELSE IF p[i].right = "" /\ p[j].right # "" THEN FALSE
    ELSE IF p[i].left # p[j].left THEN StrLess(p[i].left, p[j].left)
    ELSE IF p[i].right # p[j].right THEN StrLess(p[i].right, p[j].right)
    ELSE StrLess(p[i].ret, p[j].ret)

\* operations.Less
Less(p, i, j) ==
    IF p[i].right # "" /\ p[j].right = "" THEN FALSE
    ELSE IF p[i].right = "" /\ p[j].right # "" THEN TRUE
    ELSE IF p[i].left # p[j].left THEN StrLess(p[i].left, p[j].left)
    ELSE IF p[i].right # p[j].right THEN StrLess(p[i].right, p[j].right)
    ELSE StrLess(p[i].ret, p[j].ret)

RECURSIVE SinkOperation(_, _)
\* The inner loop of sort's insertionSort: p[j] moves down while it is Less
\* than its predecessor.
SinkOperation(p, j) ==
    IF j > 1 /\ Less(p, j, j - 1) THEN SinkOperation(Swap(p, j, j - 1), j - 1) ELSE p

RECURSIVE SortOperationsFrom(_, _)
SortOperationsFrom(p, i) ==
    IF i > Len(p) THEN p ELSE SortOperationsFrom(SinkOperation(p, i), i + 1)

\* sort.Sort(v) on operations.  For the fewer than seven elements of the
\* catalogs below, sort.Sort is insertionSort over Less and Swap.
SortOperations(p) == SortOperationsFrom(p, 2)

RECURSIVE SinkString(_, _)
SinkString(a, j) ==
    IF j > 1 /\ StrLess(a[j], a[j - 1]) THEN SinkString(Swap(a, j, j - 1), j - 1) ELSE a

RECURSIVE SortStringsFrom(_, _)
SortStringsFrom(a, i) ==
    IF i > Len(a) THEN a ELSE SortStringsFrom(SinkString(a, i), i + 1)

\* sort.Strings(a): sort.Sort with the < of strings.
SortStrings(a) == SortStringsFrom(a, 2)

-----------------------------------------------------------------------------
(* generateOperators *)

\* The display form of the operator kinds of the catalogs below.
OpString(optyp) ==
    CASE optyp = "UnaryMinus" -> "-"
      [] optyp = "UnaryComplement" -> "~"
      [] optyp = "Minus" -> "-"
      [] optyp = "Concat" -> "||"
      [] optyp = "LT" -> "<"
      [] optyp = "EQ" -> "="

\* operation.String
operationString(o) ==
    IF o.right = ""
    THEN "<code>" \o o.op \o "</code>" \o linkTypeName(o.left)
    ELSE linkTypeName(o.left) \o " <code>" \o o.op \o "</code> " \o linkTypeName(o.right)

\* The operation generateOperators builds of a parser.UnaryOp.
UnaryOperation(v, op) == [left |-> v.Typ, right |-> "", ret |-> v.ReturnType, op |-> op]

\* The operation generateOperators builds of a parser.BinOp.
BinOperation(v, op) ==
    [left |-> v.LeftType, right |-> v.RightType, ret |-> v.ReturnType, op |-> op]

\* The operation generateOperators builds of a parser.CmpOp.
CmpOperation(v, op) ==
    [left |-> v.LeftType, right |-> v.RightType, ret |-> "bool", op |-> op]

RECURSIVE OperationRows(_)
OperationRows(list) ==
    IF list = <<>> THEN ""
    ELSE "<tr><td>" \o operationString(Head(list)) \o "</td><td>"
         \o linkTypeName(Head(list).ret) \o "</td></tr>\n" \o OperationRows(Tail(list))

RECURSIVE RenderOperatorTables(_, _)
\* The loop of generateOperators that writes one table per symbol.
RenderOperatorTables(strs, m) ==
    IF strs = <<>> THEN ""
    ELSE "<table><thead>\n"
         \o "<tr><td><code>" \o Head(strs) \o "</code></td><td>Return</td></tr>\n"
         \o "</thead><tbody>\n"
         \o OperationRows(m[Head(strs)])
         \o "</tbody></table>" \o "\n"
         \o RenderOperatorTables(Tail(strs), m)

CollectUnary(optyp) ==
    /\ pc = "unary"
    /\ optyp \in DOMAIN UnaryOps \ visited
    /\ LET op == OpString(optyp)
           overloads == UnaryOps[optyp]
       IN  ops' = MapAppendAll(ops, op,
                      [i \in 1..Len(overloads) |-> UnaryOperation(overloads[i], op)])
    /\ visited' = visited \cup {optyp}
    /\ UNCHANGED <<pc, UnaryOps, BinOps, CmpOps, opstrs, b, invocation, prevOut>>
    /\ UNCHANGED <<linkVars, funcVars>>

UnaryDone ==
    /\ pc = "unary"
    /\ visited = DOMAIN UnaryOps
    /\ pc' = "bin"
    /\ visited' = {}
    /\ UNCHANGED <<opVars, b, invocation, prevOut, linkVars, funcVars>>

CollectBin(optyp) ==
    /\ pc = "bin"
    /\ optyp \in DOMAIN BinOps \ visited
    /\ LET op == OpString(optyp)
           overloads == BinOps[optyp]
       IN  ops' = MapAppendAll(ops, op,
                      [i \in 1..Len(overloads) |-> BinOperation(overloads[i], op)])
    /\ visited' = visited \cup {optyp}
    /\ UNCHANGED <<pc, UnaryOps, BinOps, CmpOps, opstrs, b, invocation, prevOut>>
    /\ UNCHANGED <<linkVars, funcVars>>

BinDone ==
    /\ pc = "bin"
    /\ visited = DOMAIN BinOps
    /\ pc' = "cmp"
    /\ visited' = {}
    /\ UNCHANGED <<opVars, b, invocation, prevOut, linkVars, funcVars>>

CollectCmp(optyp) ==
    /\ pc = "cmp"
    /\ optyp \in DOMAIN CmpOps \ visited
    /\ LET op == OpString(optyp)
           overloads == CmpOps[optyp]
       IN  ops' = MapAppendAll(ops, op,
                      [i \in 1..Len(overloads) |-> CmpOperation(overloads[i], op)])
    /\ visited' = visited \cup {optyp}
    /\ UNCHANGED <<pc, UnaryOps, BinOps, CmpOps, opstrs, b, invocation, prevOut>>
    /\ UNCHANGED <<linkVars, funcVars>>

CmpDone ==
    /\ pc = "cmp"
    /\ visited = DOMAIN CmpOps
    /\ pc' = "sort"
    /\ visited' = {}
    /\ UNCHANGED <<opVars, b, invocation, prevOut, linkVars, funcVars>>

\* One round of `for k, v := range ops`: v shares its array with ops[k], so
\* sorting v sorts ops[k].
SortGroup(k) ==
    /\ pc = "sort"
    /\ k \in DOMAIN ops \ visited
    /\ ops' = [ops EXCEPT ![k] = SortOperations(@)]
    /\ opstrs' = Append(opstrs, k)
    /\ visited' = visited \cup {k}
    /\ UNCHANGED <<pc, UnaryOps, BinOps, CmpOps, b, invocation, prevOut>>
    /\ UNCHANGED <<linkVars, funcVars>>

\* The rest of generateOperators once every group is sorted: sort.Strings,
\* the tables, the return.
RenderOperators ==
    /\ pc = "sort"
    /\ visited = DOMAIN ops
    /\ opstrs' = SortStrings(opstrs)
    /\ b' = RenderOperatorTables(opstrs', ops)
    /\ pc' = "done"
    /\ visited' = {}
    /\ UNCHANGED <<UnaryOps, BinOps, CmpOps, ops, invocation, prevOut>>
    /\ UNCHANGED <<linkVars, funcVars>>

\* generateOperators is called again on the same catalogs.
CallOperatorsAgain ==
    /\ pc = "done"
    /\ invocation = 1
    /\ invocation' = 2
    /\ prevOut' = b
    /\ pc' = "unary"
    /\ ops' = <<>>
    /\ opstrs' = <<>>
    /\ b' = ""
    /\ visited' = {}
    /\ UNCHANGED <<UnaryOps, BinOps, CmpOps, linkVars, funcVars>>

-----------------------------------------------------------------------------
(* The operator catalogs *)

MaxOps == 3

\* Catalog rows: the map a row is in, its key, and the overload.
OperatorPool ==
    {[map |-> "unary", optyp |-> "UnaryMinus", v |-> [Typ |-> "int", ReturnType |-> "int"]],
     [map |-> "unary", optyp |-> "UnaryMinus", v |-> [Typ |-> "float", ReturnType |-> "float"]],
     [map |-> "unary", optyp |-> "UnaryComplement", v |-> [Typ |-> "int", ReturnType |-> "int"]],
     [map |-> "bin", optyp |-> "Minus",
      v |-> [LeftType |-> "int", RightType |-> "int", ReturnType |-> "int"]],
     [map |-> "bin", optyp |-> "Minus",
      v |-> [LeftType |-> "int", RightType |-> "int", ReturnType |-> "decimal"]],
     [map |-> "bin", optyp |-> "Minus",
      v |-> [LeftType |-> "int", RightType |-> "float", ReturnType |-> "float"]],
     [map |-> "bin", optyp |-> "Minus",
      v |-> [LeftType |-> "float", RightType |-> "int", ReturnType |-> "float"]],
     [map |-> "bin", optyp |-> "Concat",
      v |-> [LeftType |-> "int[]", RightType |-> "int", ReturnType |-> "int[]"]],
     [map |-> "cmp", optyp |-> "LT", v |-> [LeftType |-> "int", RightType |-> "float"]],
     [map |-> "cmp", optyp |-> "LT", v |-> [LeftType |-> "date", RightType |-> "timestamptz"]],
     [map |-> "cmp", optyp |-> "EQ", v |-> [LeftType |-> "tuple", RightType |-> "tuple"]]}

\* The overloads of rows, in their order.
RECURSIVE Overloads(_)
Overloads(rows) ==
    IF rows = <<>> THEN <<>> ELSE <<Head(rows).v>> \o Overloads(Tail(rows))

\* The catalog map named which that the rows q make up.
CatalogOf(q, which) ==
    LET mine(e) == e.map = which
        keys == {q[i].optyp : i \in {j \in 1..Len(q) : mine(q[j])}}
    IN  [k \in keys |-> Overloads(SelectSeq(q, LAMBDA e : mine(e) /\ e.optyp = k))]

OperatorCatalogs ==
    {<<CatalogOf(q, "unary"), CatalogOf(q, "bin"), CatalogOf(q, "cmp")>> :
        q \in SeqsUpTo(OperatorPool, MaxOps)}

-----------------------------------------------------------------------------
(* Specifications of the linkers and of generateOperators *)

IdleLink == fn = "" /\ arg = "" /\ result = ""

IdleOperators ==
    UnaryOps = <<>> /\ BinOps = <<>> /\ CmpOps = <<>> /\ ops = <<>> /\ opstrs = <<>>

IdleFunctions ==
    /\ from = <<>> /\ categorize = FALSE /\ functions = <<>>
    /\ seen = {} /\ cats = <<>> /\ iterOrder = <<>>

IdleRun == b = "" /\ visited = {} /\ invocation = 1 /\ prevOut = ""

InitLink ==
    /\ pc = "call"
    /\ \/ fn = "linkTypeName" /\ arg \in TypeSpellings
       \/ fn = "linkArguments" /\ arg \in ArgumentLists
    /\ result = ""
    /\ IdleOperators /\ IdleFunctions /\ IdleRun

CallLinkTypeName ==
    /\ pc = "call"
    /\ fn = "linkTypeName"
    /\ result' = linkTypeName(arg)
    /\ pc' = "ret"
    /\ UNCHANGED <<fn, arg, opVars, funcVars, runVars>>

CallLinkArguments ==
    /\ pc = "call"
    /\ fn = "linkArguments"
    /\ result' = linkArguments(arg)
    /\ pc' = "ret"
    /\ UNCHANGED <<fn, arg, opVars, funcVars, runVars>>

NextLink == CallLinkTypeName \/ CallLinkArguments

SpecLink == InitLink /\ [][NextLink]_vars

InitOperators ==
    /\ pc = "unary"
    /\ \E c \in OperatorCatalogs : UnaryOps = c[1] /\ BinOps = c[2] /\ CmpOps = c[3]
    /\ ops = <<>>
    /\ opstrs = <<>>
    /\ IdleLink /\ IdleFunctions /\ IdleRun

NextOperators ==
    \/ \E optyp \in DOMAIN UnaryOps : CollectUnary(optyp)
    \/ UnaryDone
    \/ \E optyp \in DOMAIN BinOps : CollectBin(optyp)
    \/ BinDone
    \/ \E optyp \in DOMAIN CmpOps : CollectCmp(optyp)
    \/ CmpDone
    \/ \E k \in DOMAIN ops : SortGroup(k)
    \/ RenderOperators
    \/ CallOperatorsAgain

SpecOperators == InitOperators /\ [][NextOperators]_vars

-----------------------------------------------------------------------------
(* generateFunctions *)

notUsableInfo == "Not usable; exposed only for compatibility with PostgreSQL."

\* md.RenderToString on a text without markup: one paragraph.
mdRenderToString(info) == "<p>" \o info \o "</p>\n"

\* The row generateFunctions formats for overload f under the lowercased name.
FunctionRow(name, f) ==
    LET args == f.Types
        ret == f.FixedReturnType
        extra == IF f.Info # ""
                 THEN "<span class=\"funcdesc\">" \o mdRenderToString(f.Info) \o "</span>"
                 ELSE ""
    IN  "<tr><td><code>" \o name \o "(" \o linkArguments(args) \o ") &rarr; "
        \o linkArguments(ret) \o "</code></td><td>" \o extra \o "</td></tr>"

\* FunctionCategory with the return type taken even when the overload names a
\* category.
FunctionCategory_IgnoresCategory(f, categ) ==
    LET ret == f.FixedReturnType
    IN  IF ~categ THEN "" ELSE ret

\* The category generateFunctions files overload f under.
FunctionCategory(f, categ) ==
    LET ret == f.FixedReturnType
        cat == IF f.Category # "" THEN f.Category ELSE ret
    IN  IF ~categ THEN "" ELSE cat

\* SkipsOverload without the test of the text against the sentinel.
SkipsOverload_KeepsNotUsable(f, categ) == categ /\ f.WindowFunc

\* SkipsOverload with window functions skipped whatever categorize is.
SkipsOverload_WindowAlways(f, categ) ==
    \/ f.Info = notUsableInfo
    \/ f.WindowFunc

\* Whether the inner loop of generateFunctions skips overload f.
SkipsOverload(f, categ) ==
    \/ f.Info = notUsableInfo
    \/ categ /\ f.WindowFunc

RECURSIVE AddOverloads(_, _, _, _)
\* The inner loop of generateFunctions, `for _, fn := range fns`.
AddOverloads(m, name, fns, categ) ==
    IF fns = <<>> THEN m
    ELSE LET f == Head(fns)
         IN  IF SkipsOverload(f, categ)
             THEN AddOverloads(m, name, Tail(fns), categ)
             ELSE AddOverloads(MapAppend(m, FunctionCategory(f, categ), FunctionRow(name, f)),
                               name, Tail(fns), categ)

\* AlreadySeen with the set of seen names never consulted.
AlreadySeen_Never(name, seenNames) == FALSE

\* Whether the range loop skips the key whose lowercased form is name.
AlreadySeen(name, seenNames) == name \in seenNames

\* CompatibilityLast with the HACK left out.
CompatibilityLast_Alphabetical(c) == c

\* The HACK of generateFunctions.  cats[:i] keeps the capacity of cats, so both
\* appends write into the array of cats: the tail moves down one place and
\* "Compatibility" takes the last one.
CompatibilityLast(c) ==
    LET hits == {i \in 1..Len(c) : c[i] = "Compatibility"}
    IN  IF hits = {} THEN c
        ELSE LET i == CHOOSE h \in hits : \A g \in hits : h <= g
             IN  Append(SubSeq(c, 1, i - 1) \o SubSeq(c, i + 1, Len(c)), "Compatibility")

RECURSIVE RenderFunctionTables(_, _, _)
\* The loop of generateFunctions that writes one table per category.
RenderFunctionTables(c, m, categ) ==
    IF c = <<>> THEN ""
    ELSE (IF categ THEN "### " \o Head(c) \o " Functions\n\n" ELSE "")
         \o "<table>\n<thead><tr><th>Function &rarr; Returns</th><th>Description</th></tr></thead>\n"
         \o "<tbody>\n"
         \o Join(m[Head(c)], "\n")
         \o "</tbody>\n</table>\n\n"
         \o RenderFunctionTables(Tail(c), m, categ)

\* One round of `for name, fns := range from`.
RangeFrom(key) ==
    /\ pc = "range"
    /\ key \in DOMAIN from \ visited
    /\ LET name == ToLower(key)
       IN  IF AlreadySeen(name, seen)
           THEN UNCHANGED <<seen, functions>>
           ELSE /\ seen' = seen \cup {name}
                /\ functions' = AddOverloads(functions, name, from[key], categorize)
    /\ visited' = visited \cup {key}
    /\ iterOrder' = Append(iterOrder, key)
    /\ UNCHANGED <<pc, from, categorize, cats, b, invocation, prevOut>>
    /\ UNCHANGED <<linkVars, opVars>>

RangeDone ==
    /\ pc = "range"
    /\ visited = DOMAIN from
    /\ pc' = "sort"
    /\ visited' = {}
    /\ UNCHANGED <<funcVars, b, invocation, prevOut, linkVars, opVars>>

\* One round of `for k, v := range functions`: v shares its array with
\* functions[k], so sorting v sorts functions[k].
SortCategory(k) ==
    /\ pc = "sort"
    /\ k \in DOMAIN functions \ visited
    /\ functions' = [functions EXCEPT ![k] = SortStrings(@)]
    /\ cats' = Append(cats, k)
    /\ visited' = visited \cup {k}
    /\ UNCHANGED <<pc, from, categorize, seen, iterOrder, b, invocation, prevOut>>
    /\ UNCHANGED <<linkVars, opVars>>

\* The rest of generateFunctions once every category is sorted: sort.Strings,
\* the HACK, the tables, the return.
RenderFunctions ==
    /\ pc = "sort"
    /\ visited = DOMAIN functions
    /\ cats' = CompatibilityLast(SortStrings(cats))
    /\ b' = RenderFunctionTables(cats', functions, categorize)
    /\ pc' = "done"
    /\ visited' = {}
    /\ UNCHANGED <<from, categorize, functions, seen, iterOrder, invocation, prevOut>>
    /\ UNCHANGED <<linkVars, opVars>>

\* generateFunctions is called again on the same catalog.
CallFunctionsAgain ==
    /\ pc = "done"
    /\ invocation = 1
    /\ invocation' = 2
    /\ prevOut' = b
    /\ pc' = "range"
    /\ functions' = <<>>
    /\ seen' = {}
    /\ cats' = <<>>
    /\ iterOrder' = <<>>
    /\ b' = ""
    /\ visited' = {}
    /\ UNCHANGED <<from, categorize, linkVars, opVars>>

-----------------------------------------------------------------------------
(* The function catalogs *)

MaxFns == 3

lowerString ==
    [Types |-> "val: string", FixedReturnType |-> "string", Category |-> "",
     WindowFunc |-> FALSE, Info |-> ""]

notUsable ==
    [Types |-> "val: int", FixedReturnType |-> "int", Category |-> "Compatibility",
     WindowFunc |-> FALSE, Info |-> notUsableInfo]

\* Its text is the sentinel without the final period.
nearlyNotUsable ==
    [Types |-> "", FixedReturnType |-> "int", Category |-> "Compatibility",
     WindowFunc |-> FALSE,
     Info |-> "Not usable; exposed only for compatibility with PostgreSQL"]

alphaArray ==
    [Types |-> "val: int[], n: int", FixedReturnType |-> "int[]", Category |-> "Alpha",
     WindowFunc |-> FALSE, Info |-> "Appends n."]

betaFloat ==
    [Types |-> "", FixedReturnType |-> "float", Category |-> "Beta",
     WindowFunc |-> FALSE, Info |-> ""]

windowRank ==
    [Types |-> "", FixedReturnType |-> "int", Category |-> "",
     WindowFunc |-> TRUE, Info |-> "Ranks rows."]

\* Catalog rows: a key and one of its overloads.
FunctionPool ==
    {[name |-> "Foo", v |-> lowerString],
     [name |-> "Foo", v |-> nearlyNotUsable],
     [name |-> "Foo", v |-> alphaArray],
     [name |-> "foo", v |-> lowerString],
     [name |-> "foo", v |-> notUsable],
     [name |-> "foo", v |-> betaFloat],
     [name |-> "abs", v |-> betaFloat],
     [name |-> "abs", v |-> notUsable],
     [name |-> "abs", v |-> windowRank]}

\* The catalog that the rows q make up.
FunctionCatalogOf(q) ==
    LET keys == {q[i].name : i \in 1..Len(q)}
    IN  [k \in keys |-> Overloads(SelectSeq(q, LAMBDA e : e.name = k))]

FunctionCatalogs == {FunctionCatalogOf(q) : q \in SeqsUpTo(FunctionPool, MaxFns)}

-----------------------------------------------------------------------------
(* Specification of generateFunctions *)

Init ==
    /\ pc = "range"
    /\ from \in FunctionCatalogs
    /\ categorize \in BOOLEAN
    /\ functions = <<>>
    /\ seen = {}
    /\ cats = <<>>
    /\ iterOrder = <<>>
    /\ IdleLink /\ IdleOperators /\ IdleRun

Next ==
    \/ \E key \in DOMAIN from : RangeFrom(key)
    \/ RangeDone
    \/ \E k \in DOMAIN functions : SortCategory(k)
    \/ RenderFunctions
    \/ CallFunctionsAgain

Spec == Init /\ [][Next]_vars

-----------------------------------------------------------------------------
(* Properties of the linkers, under SpecLink *)

Anchor(target, text) == "<a href=\"" \o target \o ".html\">" \o text \o "</a>"

Contains(s, sub) == Index(s, sub) > 0

\* What is matched against the recognized set: the spelling without a
\* trailing "{}", with timestamptz read as timestamp, without a trailing "[]".
BaseOf(s) ==
    LET s1 == TrimSuffix(s, "{}")
    IN  TrimSuffix(IF s1 = "timestamptz" THEN "timestamp" ELSE s1, "[]")

\* C5: a spelling whose base is not in the recognized set is returned by
\* linkTypeName character for character, with no link added.
UnrecognizedReturnedUnmodified ==
    (pc = "ret" /\ fn = "linkTypeName" /\ BaseOf(arg) \notin RecognizedTypes)
        => result = arg

\* C6: for a recognized T, linkTypeName(T) and linkTypeName(T[]) link to T.html
\* and show the requested spelling; timestamptz links to timestamp.html and
\* shows timestamptz; a trailing "{}" is dropped first and is not in the result.
LinkTargetAndText ==
    (pc = "ret" /\ fn = "linkTypeName") =>
        LET s == TrimSuffix(arg, "{}")
        IN  /\ \A T \in RecognizedTypes :
                /\ s = T => result = Anchor(T, T)
                /\ s = T \o "[]" => result = Anchor(T, T \o "[]")
            /\ s = "timestamptz" => result = Anchor("timestamp", "timestamptz")

LinkTargetAndTextWitness ==
    /\ pc = "ret"
    /\ fn = "linkTypeName"
    /\ arg = "int[]{}"
    /\ result = "<a href=\"int.html\">int[]</a>"

\* Where the run of '.', '[' and ']' that ends at position n of s begins,
\* less one.
BeforeTrailingPunct(s, n) ==
    CHOOSE k \in 0..n :
        /\ k = 0 \/ Char(s, k) \notin {".", "[", "]"}
        /\ \A j \in (k + 1)..n : Char(s, j) \in {".", "[", "]"}

\* Where the run of lowercase letters that ends at position n of s begins,
\* less one.
BeforeTrailingLower(s, n) ==
    CHOOSE k \in 0..n :
        /\ k = 0 \/ IndexIn(Char(s, k), LowerLetters) = 0
        /\ \A j \in (k + 1)..n : IndexIn(Char(s, j), LowerLetters) > 0

\* A token as the contract of linkArguments describes it, read from its end:
\* the trailing run of '.', '[', ']', before it the run of lowercase letters.
ExpectedToken(tok) ==
    LET n == Len(tok)
        p == BeforeTrailingPunct(tok, n)
        q == BeforeTrailingLower(tok, p)
    IN  IF q = p THEN tok
        ELSE SubSeq(tok, 1, q) \o linkTypeName(SubSeq(tok, q + 1, p)) \o SubSeq(tok, p + 1, n)

\* C10: linkArguments returns as many tokens as its input has, in order and
\* joined by ", "; in each the lowercase run before the trailing punctuation
\* is replaced by its linkTypeName, the rest is kept, and a token that does
\* not end in such a run is unchanged.
LinkArgumentsByToken ==
    (pc = "ret" /\ fn = "linkArguments") =>
        LET given == Split(arg, ", ")
            got == Split(result, ", ")
        IN  /\ Len(got) = Len(given)
            /\ \A i \in 1..Len(given) : got[i] = ExpectedToken(given[i])
            /\ result = Join(got, ", ")

LinkArgumentsByTokenWitness ==
    /\ pc = "ret"
    /\ fn = "linkArguments"
    /\ arg = "int[], Int"
    /\ result = "<a href=\"int.html\">int</a>[], Int"

-----------------------------------------------------------------------------
(* Properties of generateOperators, under SpecOperators *)

\* How often sequence p holds x.
Count(p, x) == Cardinality({i \in 1..Len(p) : p[i] = x})

\* The places (key, index) of the overloads that catalog holds under symbol sym.
SourcesIn(catalog, sym) ==
    UNION {{<<k, i>> : i \in 1..Len(catalog[k])} :
              k \in {x \in DOMAIN catalog : OpString(x) = sym}}

\* How many overloads of the three catalogs make operation o.
CatalogCount(o) ==
    Cardinality({e \in SourcesIn(UnaryOps, o.op) :
                    UnaryOperation(UnaryOps[e[1]][e[2]], o.op) = o})
    + Cardinality({e \in SourcesIn(BinOps, o.op) :
                    BinOperation(BinOps[e[1]][e[2]], o.op) = o})
    + Cardinality({e \in SourcesIn(CmpOps, o.op) :
                    CmpOperation(CmpOps[e[1]][e[2]], o.op) = o})

\* The number of overloads the three catalogs hold under symbol sym.
CatalogSize(sym) ==
    Cardinality(SourcesIn(UnaryOps, sym)) + Cardinality(SourcesIn(BinOps, sym))
    + Cardinality(SourcesIn(CmpOps, sym))

StrLessEq(s, t) == s = t \/ StrLess(s, t)

\* x may stand before y: unary before binary, then left, right and return
\* spelling in byte order.
InOrder(x, y) ==
    IF (x.right = "") # (y.right = "") THEN x.right = ""
    ELSE IF x.left # y.left THEN StrLess(x.left, y.left)
    ELSE IF x.right # y.right THEN StrLess(x.right, y.right)
    ELSE StrLessEq(x.ret, y.ret)

\* Less is a strict weak order on the entries of p.
StrictWeakOrder(p) ==
    LET I == 1..Len(p)
        inc(i, j) == ~Less(p, i, j) /\ ~Less(p, j, i)
    IN  /\ \A i \in I : ~Less(p, i, i)
        /\ \A i, j \in I : Less(p, i, j) => ~Less(p, j, i)
        /\ \A i, j, k \in I : Less(p, i, j) /\ Less(p, j, k) => Less(p, i, k)
        /\ \A i, j, k \in I : inc(i, j) /\ inc(j, k) => inc(i, k)

\* The table of symbol sym with the rows of p, as generateOperators writes it.
TableOf(sym, p) ==
    "<tr><td><code>" \o sym \o "</code></td><td>Return</td></tr>\n</thead><tbody>\n"
    \o OperationRows(p) \o "</tbody></table>\n"

\* The symbols whose group sort.Sort has sorted.
SortedSymbols ==
    IF pc = "sort" THEN visited ELSE IF pc = "done" THEN DOMAIN ops ELSE {}

\* C4: a sorted group is a permutation of the entries collected for its
\* symbol, unary entries before binary ones and entries of one arity by left,
\* right and return spelling; the rows are rendered in that order; Less is a
\* strict weak order on the entries.
UnaryBeforeBinarySorted ==
    /\ pc = "done" => \A sym \in DOMAIN ops : StrictWeakOrder(ops[sym])
    /\ \A sym \in SortedSymbols :
        LET p == ops[sym]
        IN  /\ Len(p) = CatalogSize(sym)
            /\ \A i \in 1..Len(p) : Count(p, p[i]) = CatalogCount(p[i])
            /\ \A i, j \in 1..Len(p) : i < j => InOrder(p[i], p[j])
            /\ pc = "done" => Contains(b, TableOf(sym, p))

UnaryBeforeBinarySortedWitness ==
    /\ pc = "done"
    /\ "-" \in DOMAIN ops
    /\ Len(ops["-"]) = 3
    /\ ops["-"][1].right = ""
    /\ ops["-"][2].right = "int" /\ ops["-"][2].ret = "decimal"
    /\ ops["-"][3].right = "int" /\ ops["-"][3].ret = "int"
    /\ BinOps["Minus"][1].ReturnType = "int"

-----------------------------------------------------------------------------
(* Properties of generateFunctions, under Spec *)

\* The places (category, index) of the rows of `functions`.
RowSlots == UNION {{<<c, i>> : i \in 1..Len(functions[c])} : c \in DOMAIN functions}

\* The rows of `functions`, each with the category it is filed under.
FiledRows ==
    {[slot |-> x, cat |-> x[1], row |-> functions[x[1]][x[2]]] : x \in RowSlots}

\* Where the range loop visited key.
VisitOf(key) == CHOOSE i \in 1..Len(iterOrder) : iterOrder[i] = key

\* key was visited before every other key with the same lowercased form.
FirstEncountered(key) ==
    \A other \in DOMAIN from :
        (other # key /\ ToLower(other) = ToLower(key)) => VisitOf(key) < VisitOf(other)

\* The places (key, index) of the overloads of the keys in keys.
SourcesOf(keys) == UNION {{<<k, i>> : i \in 1..Len(from[k])} : k \in keys}

\* The overloads at the places in sources, each with the row that documents it.
Documented(sources) ==
    {[src |-> x, f |-> from[x[1]][x[2]], row |-> FunctionRow(ToLower(x[1]), from[x[1]][x[2]])] :
        x \in sources}

\* The overloads of the first-encountered keys.
Winners == Documented(SourcesOf({k \in DOMAIN from : FirstEncountered(k)}))

HasPrefix(s, prefix) == Len(s) >= Len(prefix) /\ SubSeq(s, 1, Len(prefix)) = prefix

\* C1 (generateFunctions): the second call on a catalog returns the bytes the
\* first call returned.
FunctionsDeterministic == (pc = "done" /\ invocation = 2) => b = prevOut

\* C2: every row comes from an overload of a first-encountered key, no row
\* from a later case variant, and every row carries the lowercased name.
AliasDedup ==
    pc = "done" =>
        LET filed == FiledRows
            winners == Winners
        IN  \A x \in filed :
                /\ Cardinality({y \in filed : y.row = x.row})
                       <= Cardinality({w \in winners : w.row = x.row})
                /\ \E k \in DOMAIN from :
                       HasPrefix(x.row, "<tr><td><code>" \o ToLower(k) \o "(")

AliasDedupWitness ==
    /\ pc = "done"
    /\ DOMAIN from = {"Foo", "foo"}
    /\ from["Foo"] = <<alphaArray>>
    /\ from["foo"] = <<lowerString, betaFloat>>
    /\ iterOrder = <<"foo", "Foo">>
    /\ Cardinality(RowSlots) = 2

\* C7: an overload whose text is the sentinel has no row, whatever its name,
\* category and return type and whatever categorize is; a text that differs
\* from the sentinel does not remove an overload.
SentinelFiltered ==
    pc = "done" =>
        LET filed == FiledRows
            winners == Winners
            unusable == Documented({x \in SourcesOf(DOMAIN from) :
                                       from[x[1]][x[2]].Info = notUsableInfo})
        IN  /\ \A u \in unusable : \A y \in filed : y.row # u.row
            /\ \A w \in winners :
                   (w.f.Info # notUsableInfo /\ ~(categorize /\ w.f.WindowFunc))
                       => \E y \in filed : y.row = w.row

SentinelFilteredWitness ==
    /\ pc = "done"
    /\ DOMAIN from = {"abs", "Foo"}
    /\ from["abs"] = <<notUsable, betaFloat>>
    /\ from["Foo"] = <<nearlyNotUsable>>
    /\ Cardinality(RowSlots) = 2

\* C8: of the overloads of first-encountered keys whose text is not the
\* sentinel, a window function has no row when categorize is true and one
\* row when it is false; any other has one row either way.
WindowExclusion ==
    pc = "done" =>
        LET filed == FiledRows
            plain == {w \in Winners : w.f.Info # notUsableInfo}
            rowed == IF categorize THEN {w \in plain : ~w.f.WindowFunc} ELSE plain
        IN  /\ \A w \in plain :
                Cardinality({y \in filed : y.row = w.row})
                    = Cardinality({x \in rowed : x.row = w.row})
            /\ Cardinality(filed) = Cardinality(rowed)

WindowExclusionWitness ==
    /\ pc = "done"
    /\ ~categorize
    /\ DOMAIN from = {"abs"}
    /\ from["abs"] = <<windowRank, betaFloat>>
    /\ Cardinality(RowSlots) = 2

\* The category the contract gives an overload when categorize is true.
DocumentedCategory(f) == IF f.Category # "" THEN f.Category ELSE f.FixedReturnType

Heading(c) == "### " \o c \o " Functions\n\n"

TableStart ==
    "<table>\n<thead><tr><th>Function &rarr; Returns</th><th>Description</th></tr></thead>\n<tbody>\n"

\* C9: with categorize, each kept row is in the table of its explicit
\* category, or of its return type when it has none, and in no other, and a
\* heading precedes each table; without, every kept row is in the one
\* category "" and there is no heading.
CategoryAssignment ==
    pc = "done" =>
        LET filed == FiledRows
            kept == {w \in Winners :
                        w.f.Info # notUsableInfo /\ ~(categorize /\ w.f.WindowFunc)}
            home(w) == IF categorize THEN DocumentedCategory(w.f) ELSE ""
        IN  /\ \A w \in kept :
                /\ Cardinality({y \in filed : y.row = w.row /\ y.cat = home(w)})
                       = Cardinality({x \in kept : x.row = w.row /\ home(x) = home(w)})
                /\ Cardinality({y \in filed : y.row = w.row})
                       = Cardinality({x \in kept : x.row = w.row})
                /\ Cardinality({y \in filed : y.row = w.row /\ y.cat = home(w)}) >= 1
            /\ ~categorize => DOMAIN functions \subseteq {""}
            /\ IF categorize
               THEN \A c \in DOMAIN functions :
                       Contains(b, Heading(c) \o TableStart \o Join(functions[c], "\n")
                                   \o "</tbody>\n</table>\n\n")
               ELSE ~Contains(b, "###")

CategoryAssignmentWitness ==
    /\ pc = "done"
    /\ categorize
    /\ DOMAIN from = {"foo", "abs"}
    /\ from["foo"] = <<lowerString>>
    /\ from["abs"] = <<betaFloat>>
    /\ DOMAIN functions = {"string", "Beta"}
    /\ functions["string"] =
         <<"<tr><td><code>foo(val: <a href=\"string.html\">string</a>) &rarr; <a href=\"string.html\">string</a></code></td><td></td></tr>">>

\* C3: the categories are rendered each once, "Compatibility" last when it
\* is one of them and the others in ascending byte order.
CompatibilityIsLast ==
    pc = "done" =>
        /\ Len(cats) = Cardinality(DOMAIN functions)
        /\ {cats[i] : i \in 1..Len(cats)} = DOMAIN functions
        /\ \A i, j \in 1..Len(cats) :
               (i < j /\ cats[i] # "Compatibility" /\ cats[j] # "Compatibility")
                   => StrLess(cats[i], cats[j])
        /\ "Compatibility" \in DOMAIN functions => cats[Len(cats)] = "Compatibility"
        /\ categorize =>
               \A i, j \in 1..Len(cats) :
                   i < j => /\ Contains(b, Heading(cats[i]))
                            /\ Index(b, Heading(cats[i])) < Index(b, Heading(cats[j]))

CompatibilityIsLastWitness ==
    /\ pc = "done"
    /\ cats = <<"Alpha", "string", "Compatibility">>

-----------------------------------------------------------------------------
(* Determinism of generateOperators, under SpecOperators *)

\* The second call on the catalogs returns the bytes the first call returned.
OperatorsDeterministic == (pc = "done" /\ invocation = 2) => b = prevOut

====
